---- MODULE Spec2Model ----
(***************************************************************************)
(* Budget book (BudgetApp): the monthly accounting engine.                 *)
(*                                                                         *)
(* Representation of the program's values:                                 *)
(*   - a month key "YYYY-MM" is the number YYYY*100 + MM; for four-digit   *)
(*     years the string order used by the code (k < month, sort()) is      *)
(*     the numeric order of these numbers;                                 *)
(*   - a date string "YYYY-MM-DD" is the number YYYY*10000 + MM*100 + DD;  *)
(*   - a JavaScript Date is the record of its local-time fields            *)
(*     [y, m, d, ms] with m the zero-based month (getMonth) and ms the     *)
(*     milliseconds since local midnight;                                  *)
(*   - a JavaScript number produced by a division is an IEEE-754 double:   *)
(*     a 53-bit significand (14 hexadecimal digits, most significant       *)
(*     first) and a binary exponent;                                       *)
(*   - the top categories "소비" / "저축" / "기타" are written             *)
(*     "Spending" / "Savings" / "Other", the seed items "식비" / "생활비"  *)
(*     / "공과금" are "food" / "living" / "utility" and the placeholder    *)
(*     "새 항목" is "new item";                                            *)
(*   - uid() is a counter: every call returns a value never returned       *)
(*     before.                                                             *)
(***************************************************************************)
EXTENDS Integers, Sequences, FiniteSets, TLC

VARIABLES
    budgets,     \* state.budgets : month key -> list of budget items
    txs,         \* state.txs     : list of transactions, newest first
    settings,    \* state.settings
    month,       \* the selected month key
    nextId,      \* number of values uid() has returned so far
    propagated,  \* history: months the propagation effect copied items into
    view,        \* what the last render computed from state and month
    pc,          \* "input" before the first render, "rendered" after it,
                 \* "crashed" once an effect has thrown
    tab,         \* the tab shown
    filterItem,  \* the item filter of the list view, "" for null
    filterDate,  \* the date filter of the list view, 0 for null
    localStorage \* item: what is stored under LS_KEY, << >> or <<text>>;
                 \* room: the list entries a stored text may hold

vars == <<budgets, txs, settings, month, nextId, propagated, view, pc,
          tab, filterItem, filterDate, localStorage>>

-----------------------------------------------------------------------------
(* Bounds of the model *)

MaxIds == 6          \* uid() is called at most this many times
MaxTxs == 3          \* the ledger holds at most this many transactions
MaxItems == 3        \* a month holds at most this many budget items
MaxPlan == 41        \* plans drawn for the rate computation: 0..MaxPlan
MaxAmount == 45      \* amounts drawn for the rate computation: 1..MaxAmount
RepItems == 2        \* budget items of a drawn month
RepTxs == 2          \* transactions of a drawn ledger
LastYear == 2025     \* periods are resolved for the years FirstYear..LastYear

FirstYear == LastYear - 2

-----------------------------------------------------------------------------
(* Calendar: the Date constructor and its field setters *)

Min(a, b) == IF a <= b THEN a ELSE b
Max(a, b) == IF a >= b THEN a ELSE b

IsLeap(y) == (y % 4 = 0 /\ y % 100 # 0) \/ y % 400 = 0

\* number of days of the month with zero-based index m0 of year y
MonthLength(y, m0) ==
    IF m0 = 1 THEN (IF IsLeap(y) THEN 29 ELSE 28)
    ELSE IF m0 \in {3, 5, 8, 10} THEN 30 ELSE 31

\* the day overflow of new Date(y, m0, d), for m0 already in 0..11
RECURSIVE DayAdjust(_, _, _)
DayAdjust(y, m0, d) ==
    IF d < 1
    THEN LET py == IF m0 = 0 THEN y - 1 ELSE y
             pm == IF m0 = 0 THEN 11 ELSE m0 - 1
         IN DayAdjust(py, pm, d + MonthLength(py, pm))
    ELSE IF d > MonthLength(y, m0)
    THEN LET ny == IF m0 = 11 THEN y + 1 ELSE y
             nm == IF m0 = 11 THEN 0 ELSE m0 + 1
         IN DayAdjust(ny, nm, d - MonthLength(y, m0))
    ELSE [y |-> y, m |-> m0, d |-> d, ms |-> 0]

\* new Date(y, m0, d): local midnight of that day, month and day overflowing
NewDate(y, m0, d) == DayAdjust(y + (m0 \div 12), m0 % 12, d)

\* dt.setMonth(n) and dt.setDate(n) keep the time of day
SetMonth(dt, n) == [NewDate(dt.y, n, dt.d) EXCEPT !.ms = dt.ms]
SetDate(dt, n) == [NewDate(dt.y, dt.m, n) EXCEPT !.ms = dt.ms]
\* dt.setHours(23, 59, 59, 999)
EndOfDayMs == ((23 * 60 + 59) * 60 + 59) * 1000 + 999
SetHoursEndOfDay(dt) == [dt EXCEPT !.ms = EndOfDayMs]

\* d1 <= d2 on Date objects (comparison of the time values)
DateLE(d1, d2) ==
    \/ d1.y < d2.y
    \/ d1.y = d2.y /\ d1.m < d2.m
    \/ d1.y = d2.y /\ d1.m = d2.m /\ d1.d < d2.d
    \/ d1.y = d2.y /\ d1.m = d2.m /\ d1.d = d2.d /\ d1.ms <= d2.ms

\* yearMonth.split("-").map(Number)
KeyYear(k) == k \div 100
KeyMonth(k) == k % 100
\* `${y}-${mm}`
MonthKey(y, m) == y * 100 + m

\* new Date(y, m, 0).getDate()
daysInMonth(y, m) == NewDate(y, m, 0).d

\* startEndOfMonth without the clamp of the start day to the month's last day
startEndOfMonth_NoClamp(yearMonth, startDay) ==
    LET y == KeyYear(yearMonth)
        m == KeyMonth(yearMonth)
        start == NewDate(y, m - 1, startDay)
        e0 == NewDate(y, m - 1, startDay)
        e1 == SetMonth(e0, e0.m + 1)
        e2 == SetDate(e1, e1.d - 1)
    IN [start |-> start, end |-> SetHoursEndOfDay(e2)]

startEndOfMonth(yearMonth, startDay) ==
    LET y == KeyYear(yearMonth)
        m == KeyMonth(yearMonth)
        lastDay == NewDate(y, m, 0).d
        startD == Min(startDay, lastDay)
        start == NewDate(y, m - 1, startD)
        e0 == NewDate(y, m - 1, startD)
        e1 == SetMonth(e0, e0.m + 1)
        e2 == SetDate(e1, e1.d - 1)
    IN [start |-> start, end |-> SetHoursEndOfDay(e2)]

\* parseDate(s): s.split("-").map(Number), new Date(y, m - 1, d)
parseDate(s) == NewDate(s \div 10000, ((s \div 100) % 100) - 1, s % 100)

\* `${month}-${dd}`
DateStr(k, d) == k * 100 + d

-----------------------------------------------------------------------------
(* Numbers: (actual / plan) * 100 and Math.round in IEEE-754 double         *)
(* arithmetic.  A positive double is [sig, exp]: sig is its 53-bit          *)
(* significand M, 2^52 <= M < 2^53, written as 14 hexadecimal digits, most  *)
(* significant first, and its value is M * 2^(exp - 52).  The operands     *)
(* are integers below 2^20.                                                *)

HexLen == 14

\* the integer written by the first n hexadecimal digits of h
RECURSIVE HexToInt(_, _)
HexToInt(h, n) == IF n = 0 THEN 0 ELSE 16 * HexToInt(h, n - 1) + h[n]

\* h + 1 at digit n and the digits before it (h is not all F)
RECURSIVE IncAt(_, _)
IncAt(h, n) ==
    IF h[n] = 15 THEN IncAt([h EXCEPT ![n] = 0], n - 1)
    ELSE [h EXCEPT ![n] = h[n] + 1]
IncHex(h) == IncAt(h, Len(h))

\* h * k for a small factor k, on two more digits than h: the digits up
\* to position n, given the carry coming from the digits behind n
RECURSIVE MulDigits(_, _, _, _)
MulDigits(h, k, n, carry) ==
    IF n = 0 THEN <<carry \div 16, carry % 16>>
    ELSE MulDigits(h, k, n - 1, (h[n] * k + carry) \div 16) \o <<(h[n] * k + carry) % 16>>
MulHex(h, k) == MulDigits(h, k, Len(h), 0)

\* the significand m (14 digits, at most 2^53) and exponent e as a double
Normal(m, e) ==
    IF m[1] = 2 THEN [sig |-> [i \in 1..HexLen |-> IF i = 1 THEN 1 ELSE 0], exp |-> e + 1]
    ELSE [sig |-> m, exp |-> e]

\* scale a / p to n / d * 2^e with d <= n < 2 * d
RECURSIVE ShiftDen(_, _, _)
ShiftDen(a, d, k) ==
    IF 2 * d <= a THEN ShiftDen(a, 2 * d, k + 1) ELSE [n |-> a, d |-> d, e |-> k]
RECURSIVE ShiftNum(_, _, _)
ShiftNum(n, p, k) ==
    IF n >= p THEN [n |-> n, d |-> p, e |-> 0 - k] ELSE ShiftNum(2 * n, p, k + 1)

\* the first `count` hexadecimal digits of the fraction r / d (r < d),
\* followed by the remainder left after them
RECURSIVE DivDigits(_, _, _)
DivDigits(r, d, count) ==
    IF count = 0 THEN <<r>>
    ELSE <<(16 * r) \div d>> \o DivDigits((16 * r) % d, d, count - 1)

\* the double a / p for integers a >= 1, p >= 1: the quotient rounded to
\* 53 bits, to nearest, ties to even
DoubleDiv(a, p) ==
    LET s == IF a >= p THEN ShiftDen(a, p, 0) ELSE ShiftNum(a, p, 0)
        q == DivDigits(s.n - s.d, s.d, HexLen - 1)
        m == <<1>> \o SubSeq(q, 1, HexLen - 1)
        r == q[HexLen]
        up == 2 * r > s.d \/ (2 * r = s.d /\ m[HexLen] % 2 = 1)
    IN Normal(IF up THEN IncHex(m) ELSE m, s.e)

\* the double x * 100: the exact product P (2^58 <= P < 2^60, 16 digits)
\* loses its last s = 6 or 7 bits, rounded to nearest, ties to even
DoubleTimes100(x) ==
    LET P == MulHex(x.sig, 100)
        s == IF P[2] >= 8 THEN 7 ELSE 6
        low == 16 * P[15] + P[16]
        dropped == low % (2 ^ s)
        lsb == (low \div (2 ^ s)) % 2
        up == 2 * dropped > 2 ^ s \/ (2 * dropped = 2 ^ s /\ lsb = 1)
        m == SubSeq(MulHex(P, 2 ^ (8 - s)), 3, 16)
    IN Normal(IF up THEN IncHex(m) ELSE m, x.exp + s)

\* Math.round(x) for a positive double below 2^27: the nearest integer,
\* a fractional part of exactly one half rounding up
MathRound(x) ==
    IF x.exp < 0 - 1 THEN 0
    ELSE IF x.exp = 0 - 1 THEN 1
    ELSE LET top == HexToInt(x.sig, 8)
             t == 28 - x.exp
         IN (top \div (2 ^ t)) + ((top \div (2 ^ (t - 1))) % 2)

\* Math.round((actual / plan) * 100) for integers actual >= 0, plan >= 1
RoundPercent(actual, plan) ==
    IF actual = 0 THEN 0 ELSE MathRound(DoubleTimes100(DoubleDiv(actual, plan)))

-----------------------------------------------------------------------------
(* Data model *)

TopCategory == {"Spending", "Savings", "Other"}

\* const initMonth = ym(new Date()): the calendar month the app is opened in
CurMonth == 202401

\* the months the month input is set to
Months == {202312, 202401, 202402}

\* the options of the start-day select:
\* Array.from({ length: 31 }, (_, i) => i + 1)
StartDayOptions == {i + 1 : i \in 0..30}

\* the options the model chooses
StartDays == {d \in StartDayOptions : d = 1 \/ d = 31}

\* values typed into the forms
EditRows == {1}      \* the row of the budget table whose fields are edited
NameInputs == {"food"}
PlanInputs == {1000}
ItemInputs == {[top |-> "Savings", name |-> "", plan |-> 1000]}
DateInputs == {20240130, 20240131, 20240301}

\* todayStr() on the day the app is used: the last day of CurMonth
TodayDay == 31

\* what is in the date input (0: nothing), the item select, the amount
\* input (its characters) and the memo input when the quick entry is
\* submitted
QuickEntries ==
    { [date |-> 0, item |-> "food", amount |-> <<"5", "0", "0", "0">>,
       memo |-> ""],
      [date |-> 20240301, item |-> "food", amount |-> <<"1", ".", "5">>,
       memo |-> "lunch"],
      [date |-> 20240130, item |-> "living", amount |-> <<"5", "0", "0", "0">>,
       memo |-> ""],
      [date |-> 0, item |-> "", amount |-> <<"5", "0", "0", "0">>, memo |-> ""],
      [date |-> 0, item |-> "food", amount |-> << >>, memo |-> ""],
      [date |-> 0, item |-> "food", amount |-> <<"0">>, memo |-> ""] }

\* uid(): the n-th value returned
uid(n) == n

\* state.budgets[month] || []
monthBudgets(b, m) == IF m \in DOMAIN b THEN b[m] ELSE <<>>

\* the new budgets object built without the spread of state.budgets
SetMonthList_Only(b, m, list) == [k \in {m} |-> list]

\* { ...prev.budgets, [month]: list }
SetMonthList(b, m, list) ==
    [k \in DOMAIN b \cup {m} |-> IF k = m THEN list ELSE b[k]]

Ids(list) == {list[i].id : i \in 1..Len(list)}

\* loadState() when nothing is stored: three sample Spending items
SeedItems ==
    << [id |-> uid(1), top |-> "Spending", name |-> "food", plan |-> 300000],
       [id |-> uid(2), top |-> "Spending", name |-> "living", plan |-> 300000],
       [id |-> uid(3), top |-> "Spending", name |-> "utility", plan |-> 100000] >>

loadState ==
    [budgets |-> [k \in {CurMonth} |-> SeedItems],
     txs |-> <<>>,
     settings |-> [startDay |-> 1, startDayTakesEffectNextMonth |-> TRUE]]

-----------------------------------------------------------------------------
(* The report: the values BudgetApp derives from state and month on render *)

consumptionItems(list) ==
    LET IsSpending(b) == b.top = "Spending" IN SelectSeq(list, IsSpending)

monthRange(m, s) == startEndOfMonth(m, s.startDay)

\* monthTxs with d > monthRange.start in place of d >= monthRange.start
monthTxs_AfterStart(t, range) ==
    LET InRange(tx) ==
            LET d == parseDate(tx.date)
            IN ~DateLE(d, range.start) /\ DateLE(d, range.end)
    IN SelectSeq(t, InRange)

monthTxs(t, range) ==
    LET InRange(tx) ==
            LET d == parseDate(tx.date)
            IN DateLE(range.start, d) /\ DateLE(d, range.end)
    IN SelectSeq(t, InRange)

\* map.get(key) || 0
MapGet(map, key) == IF key \in DOMAIN map THEN map[key] ELSE 0
\* map.set(key, value)
MapSet(map, key, value) ==
    [k \in DOMAIN map \cup {key} |-> IF k = key THEN value ELSE map[k]]

\* actualByItem without .filter((t) => t.top === "Spending")
RECURSIVE actualByItemUpTo_AnyTop(_, _)
actualByItemUpTo_AnyTop(mtxs, n) ==
    IF n = 0 THEN << >>
    ELSE LET map == actualByItemUpTo_AnyTop(mtxs, n - 1)
             tx == mtxs[n]
         IN MapSet(map, tx.item, MapGet(map, tx.item) + tx.amount)

\* the Map built by forEach over the first n Spending transactions of mtxs
RECURSIVE actualByItemUpTo(_, _)
actualByItemUpTo(mtxs, n) ==
    IF n = 0 THEN << >>
    ELSE LET map == actualByItemUpTo(mtxs, n - 1)
             tx == mtxs[n]
         IN IF tx.top = "Spending"
            THEN MapSet(map, tx.item, MapGet(map, tx.item) + tx.amount)
            ELSE map

actualByItem(mtxs) == actualByItemUpTo(mtxs, Len(mtxs))

rate(actual, plan) ==
    IF plan > 0 THEN Min(100, RoundPercent(actual, plan)) ELSE 0

chartData(items, byItem) ==
    [i \in 1..Len(items) |->
        LET actual == MapGet(byItem, items[i].name)
        IN [name |-> items[i].name,
            rate |-> rate(actual, items[i].plan),
            actual |-> actual,
            plan |-> items[i].plan]]

\* chartData.reduce((s, d) => s + d.actual, 0) over the first n rows
RECURSIVE spentSumUpTo(_, _)
spentSumUpTo(rows, n) ==
    IF n = 0 THEN 0 ELSE spentSumUpTo(rows, n - 1) + rows[n].actual
spentSum(rows) == spentSumUpTo(rows, Len(rows))

RECURSIVE planSumUpTo(_, _)
planSumUpTo(rows, n) ==
    IF n = 0 THEN 0 ELSE planSumUpTo(rows, n - 1) + rows[n].plan
planSum(rows) == planSumUpTo(rows, Len(rows))

\* remainSum without Math.max(..., 0)
remainSum_NoFloor(plan, spent) == plan - spent

remainSum(plan, spent) == Max(plan - spent, 0)

\* BudgetView: the Map id -> actual; a transaction is added to the first
\* item of the list with its top category and name
RECURSIVE actualByBudgetIdUpTo(_, _, _)
actualByBudgetIdUpTo(list, mtxs, n) ==
    IF n = 0 THEN [id \in Ids(list) |-> 0]
    ELSE LET map == actualByBudgetIdUpTo(list, mtxs, n - 1)
             tx == mtxs[n]
             found == {i \in 1..Len(list) :
                          list[i].top = tx.top /\ list[i].name = tx.item}
         IN IF found = {} THEN map
            ELSE LET b == list[CHOOSE i \in found : \A j \in found : i <= j]
                 IN MapSet(map, b.id, MapGet(map, b.id) + tx.amount)

actualByBudgetId(list, mtxs) == actualByBudgetIdUpTo(list, mtxs, Len(mtxs))

\* the rows of the BudgetView table
budgetRows(list, mtxs) ==
    LET map == actualByBudgetId(list, mtxs)
    IN [i \in 1..Len(list) |->
           LET actual == MapGet(map, list[i].id)
           IN [id |-> list[i].id,
               actual |-> actual,
               remain |-> Max(list[i].plan - actual, 0),
               over |-> actual > list[i].plan]]

\* one render of BudgetApp
Render(b, t, s, m) ==
    LET list == monthBudgets(b, m)
        range == monthRange(m, s)
        mtxs == monthTxs(t, range)
        rows == chartData(consumptionItems(list), actualByItem(mtxs))
    IN [monthRange |-> range,
        chartData |-> rows,
        spentSum |-> spentSum(rows),
        planSum |-> planSum(rows),
        remainSum |-> remainSum(planSum(rows), spentSum(rows)),
        budgetRows |-> budgetRows(list, mtxs)]

-----------------------------------------------------------------------------
(* Operations of BudgetApp.  Every setState is followed by a render. *)

\* value.replace(/[^0-9]/g, "")
DigitChars == <<"0", "1", "2", "3", "4", "5", "6", "7", "8", "9">>
StripNonDigits(text) ==
    LET IsDigit(c) == \E i \in 1..10 : DigitChars[i] = c
    IN SelectSeq(text, IsDigit)

\* Number(digits) for a string of decimal digits; Number("") is 0
RECURSIVE NumberOfDigits(_)
NumberOfDigits(digits) ==
    IF Len(digits) = 0 THEN 0
    ELSE 10 * NumberOfDigits(SubSeq(digits, 1, Len(digits) - 1))
             + (CHOOSE i \in 1..10 : DigitChars[i] = digits[Len(digits)]) - 1

\* the JSON texts of a number (an integer: its decimal digits), of a
\* boolean and of a string (the characters between the quotes)
JsonNumber(n) == ToString(n)
JsonBoolean(b) == IF b THEN "true" ELSE "false"
JsonString(s) == s

\* the fields of BudgetItem, Tx and Settings holding numbers and booleans
NumberFields == {"plan", "amount", "startDay"}
BooleanFields == {"startDayTakesEffectNextMonth"}

\* JSON.stringify of an object: the fields it has, each by its type
StringifyObject(o) ==
    [f \in DOMAIN o |-> IF f \in NumberFields THEN JsonNumber(o[f])
                        ELSE IF f \in BooleanFields THEN JsonBoolean(o[f])
                        ELSE JsonString(o[f])]
StringifyArray(a) == [i \in 1..Len(a) |-> StringifyObject(a[i])]

\* JSON.stringify(s) leaving the ledger out
Stringify_NoLedger(s) ==
    [budgets |-> [k \in DOMAIN s.budgets |-> StringifyArray(s.budgets[k])],
     txs |-> << >>,
     settings |-> StringifyObject(s.settings)]

\* JSON.stringify(s) of an AppState
Stringify(s) ==
    [budgets |-> [k \in DOMAIN s.budgets |-> StringifyArray(s.budgets[k])],
     txs |-> StringifyArray(s.txs),
     settings |-> StringifyObject(s.settings)]

\* JSON.parse(raw) as AppState: the number of a decimal text, the boolean
\* of a literal, the string of a string
ParseNumber(text) == NumberOfDigits([i \in 1..Len(text) |-> SubSeq(text, i, i)])
ParseBoolean(text) == text = "true"
ParseObject(o) ==
    [f \in DOMAIN o |-> IF f \in NumberFields THEN ParseNumber(o[f])
                        ELSE IF f \in BooleanFields THEN ParseBoolean(o[f])
                        ELSE o[f]]
ParseArray(a) == [i \in 1..Len(a) |-> ParseObject(a[i])]
Parse(raw) ==
    [budgets |-> [k \in DOMAIN raw.budgets |-> ParseArray(raw.budgets[k])],
     txs |-> ParseArray(raw.txs),
     settings |-> ParseObject(raw.settings)]

\* the size of the text JSON.stringify(s), in the list entries it holds
Size(s) ==
    Cardinality(UNION {{<<k, i>> : i \in 1..Len(s.budgets[k])} :
                          k \in DOMAIN s.budgets})
        + Len(s.txs)

\* a storage with room for every state of the app within the bounds, and
\* a storage with room for one entry more than the seed
Room == Cardinality(Months) * MaxItems + MaxTxs
SmallRoom == Len(SeedItems) + 1

\* localStorage.setItem keeping the value stored first
setItem_KeepFirst(st, text) == IF st.item = << >> THEN [st EXCEPT !.item = <<text>>] ELSE st

\* localStorage.setItem(LS_KEY, text), which throws when the text of the
\* state s does not fit (Fits), and localStorage.removeItem(LS_KEY)
setItem(st, text) == [st EXCEPT !.item = <<text>>]
Fits(st, s) == Size(s) <= st.room

\* localStorage.removeItem leaving the item stored
removeItem_Keep(st) == st

removeItem(st) == [st EXCEPT !.item = << >>]

\* loadState() for what getItem(LS_KEY) returns
LoadState(item) == IF item = << >> THEN loadState ELSE Parse(item[1])

\* a render of the new state, then useEffect(() => saveState(state),
\* [state]) on the storage st; a throw of setItem in the effect unmounts
\* the app, the new state rendered and not stored
Commit(st) ==
    LET s == [budgets |-> budgets', txs |-> txs', settings |-> settings']
    IN /\ view' = Render(budgets', txs', settings', month')
       /\ IF Fits(st, s)
          THEN localStorage' = setItem(st, Stringify(s)) /\ pc' = "rendered"
          ELSE localStorage' = st /\ pc' = "crashed"

Rerender ==
    /\ Commit(localStorage)
    /\ UNCHANGED <<tab, filterItem, filterDate>>

\* the propagation effect testing list.length <= 1
NeedsCopy_AtMostOne(list) == Len(list) <= 1

\* the propagation effect: !list || list.length === 0
NeedsCopy(list) == Len(list) = 0

\* keys.filter((k) => k < month).pop() on the sorted keys; 0 when undefined
prevKey(b, m) ==
    LET keys == {k \in DOMAIN b : k < m}
    IN IF keys = {} THEN 0 ELSE CHOOSE k \in keys : \A j \in keys : j <= k

\* the copy keeping the identifiers of the source ({ ...b })
copied_KeepId(src, n) ==
    [i \in 1..Len(src) |->
        [id |-> src[i].id, top |-> src[i].top, name |-> src[i].name,
         plan |-> src[i].plan]]

\* (state.budgets[prevKey] || []).map((b) => ({ id: uid(), ... })),
\* uid() having returned n values before
copied(src, n) ==
    [i \in 1..Len(src) |->
        [id |-> uid(n + i), top |-> src[i].top, name |-> src[i].name,
         plan |-> src[i].plan]]

\* useEffect(..., [month]) for the month m just selected
PropagationEffect(m) ==
    LET pk == prevKey(budgets, m)
    IN IF NeedsCopy(monthBudgets(budgets, m)) /\ pk # 0
       THEN LET list == copied(budgets[pk], nextId)
            IN /\ nextId + Len(list) <= MaxIds
               /\ budgets' = SetMonthList(budgets, m, list)
               /\ nextId' = nextId + Len(list)
               /\ propagated' = IF Len(list) > 0 THEN propagated \cup {m}
                                ELSE propagated
       ELSE UNCHANGED <<budgets, nextId, propagated>>

\* onChange of a month input: setMonth(k), then the propagation effect
SelectMonth(k) ==
    /\ pc = "rendered"
    /\ k # month
    /\ month' = k
    /\ PropagationEffect(k)
    /\ UNCHANGED <<txs, settings>>
    /\ Rerender

\* addTx storing the transaction as it was passed ([tx, ...prev.txs])
addTx_KeepId(tx) ==
    /\ nextId < MaxIds
    /\ Len(txs) < MaxTxs
    /\ txs' = <<tx>> \o txs
    /\ nextId' = nextId + 1

addTx(tx) ==
    /\ nextId < MaxIds
    /\ Len(txs) < MaxTxs
    /\ txs' = <<[tx EXCEPT !.id = uid(nextId + 1)]>> \o txs
    /\ nextId' = nextId + 1

\* the options of the item select of the quick entry: "" and the names of
\* the Spending items of the selected month
ItemOptions == {""} \cup
    {b.name : b \in {monthBudgets(budgets, month)[i] :
                        i \in {j \in 1..Len(monthBudgets(budgets, month)) :
                                  monthBudgets(budgets, month)[j].top = "Spending"}}}

todayStr == DateStr(CurMonth, TodayDay)

\* HomeView.handleSubmit with the values of the four inputs
handleSubmit(in) ==
    /\ pc = "rendered"
    /\ LET date == IF in.date = 0 THEN todayStr ELSE in.date
           amt == NumberOfDigits(StripNonDigits(in.amount))
       IN IF in.item = "" \/ amt = 0 \/ amt <= 0
          THEN UNCHANGED <<txs, nextId>>
          ELSE addTx([id |-> 0, date |-> date, top |-> "Spending",
                      item |-> in.item, amount |-> amt, memo |-> in.memo])
    /\ UNCHANGED <<budgets, settings, month, propagated>>
    /\ Rerender

\* the filter dropping the newest transaction whatever the id
WithoutTx_Newest(t, id) == IF Len(t) = 0 THEN t ELSE Tail(t)

\* prev.txs.filter((t) => t.id !== id)
WithoutTx(t, id) == LET Keep(tx) == tx.id # id IN SelectSeq(t, Keep)

removeTx(id) ==
    /\ pc = "rendered"
    /\ txs' = WithoutTx(txs, id)
    /\ UNCHANGED <<budgets, settings, month, nextId, propagated>>
    /\ Rerender

\* ListView.baseTxs: the Spending transactions of the selected period
baseTxs(t, range) ==
    LET Shown(tx) ==
            LET d == parseDate(tx.date)
            IN tx.top = "Spending" /\ DateLE(range.start, d) /\ DateLE(d, range.end)
    IN SelectSeq(t, Shown)

\* ListView.viewTxs: baseTxs filtered by the date filter, then by the item
\* filter, each when set
viewTxs(base, fDate, fItem) ==
    LET OnDate(tx) == tx.date = fDate
        OfItem(tx) == tx.item = fItem
        arr == IF fDate # 0 THEN SelectSeq(base, OnDate) ELSE base
    IN IF fItem # "" THEN SelectSeq(arr, OfItem) ELSE arr

\* ListView.itemOptions: the item names of baseTxs
itemOptions(base) == {base[i].item : i \in 1..Len(base)}

\* App.tsx, ListView: monthTxs.filter((t) => t.top === "Spending")
ListViewTxs(mtxs) ==
    LET IsSpending(tx) == tx.top = "Spending" IN SelectSeq(mtxs, IsSpending)

\* App.tsx, handleQuickSubmit with the values typed into the four inputs:
\* quick.amount holds the digits of what was typed, quick.date the value
\* of the date input as it is
handleQuickSubmit(in) ==
    /\ pc = "rendered"
    /\ LET quick == [in EXCEPT !.amount = StripNonDigits(in.amount)]
           amt == NumberOfDigits(StripNonDigits(quick.amount))
       IN IF quick.item = "" \/ amt = 0 \/ amt <= 0
          THEN UNCHANGED <<txs, nextId>>
          ELSE addTx([id |-> 0, date |-> quick.date, top |-> "Spending",
                      item |-> quick.item, amount |-> amt, memo |-> quick.memo])
    /\ UNCHANGED <<budgets, settings, month, propagated>>
    /\ Rerender

\* MonthlyView.monthConsumption: the Spending transactions of monthTxs
monthConsumption(mtxs) ==
    LET IsSpending(tx) == tx.top = "Spending" IN SelectSeq(mtxs, IsSpending)

\* MonthlyView.byDate: the Map built by forEach over the first n of them
RECURSIVE byDateUpTo(_, _)
byDateUpTo(mc, n) ==
    IF n = 0 THEN << >>
    ELSE LET map == byDateUpTo(mc, n - 1)
             tx == mc[n]
         IN MapSet(map, tx.date, MapGet(map, tx.date) + tx.amount)

byDate(mc) == byDateUpTo(mc, Len(mc))

\* MonthlyView.cells: one cell for each day of the calendar month of the
\* month key (the blank cells before and after them carry no date)
cells(m, map) ==
    [d \in 1..daysInMonth(KeyYear(m), KeyMonth(m)) |->
        [label |-> d, date |-> DateStr(m, d), sum |-> MapGet(map, DateStr(m, d))]]

\* the calendar MonthlyView shows for the state rendered
Calendar == cells(month, byDate(monthConsumption(monthTxs(txs, view.monthRange))))

\* TabBar: setTab(t)
SetTab(t) ==
    /\ pc = "rendered"
    /\ tab' = t
    /\ UNCHANGED <<budgets, txs, settings, month, nextId, propagated, view, pc,
                   filterItem, filterDate, localStorage>>

\* MonthlyView: click on a calendar cell with a date
ClickCell(c) ==
    /\ pc = "rendered"
    /\ tab = "monthly"
    /\ filterDate' = c.date
    /\ filterItem' = ""
    /\ tab' = "list"
    /\ UNCHANGED <<budgets, txs, settings, month, nextId, propagated, view, pc,
                   localStorage>>

\* MonthlyView: click on the row d of the summary by item
ClickItemRow(d) ==
    /\ pc = "rendered"
    /\ tab = "monthly"
    /\ filterItem' = d.name
    /\ tab' = "list"
    /\ UNCHANGED <<budgets, txs, settings, month, nextId, propagated, view, pc,
                   filterDate, localStorage>>

\* ListView: the item select changed to an option, "" for all items
ChangeFilter(name) ==
    /\ pc = "rendered"
    /\ tab = "list"
    /\ filterItem' = name
    /\ UNCHANGED <<budgets, txs, settings, month, nextId, propagated, view, pc,
                   tab, filterDate, localStorage>>

\* ListView: the button shown while a filter is set
ClearFilters ==
    /\ pc = "rendered"
    /\ tab = "list"
    /\ filterDate # 0 \/ filterItem # ""
    /\ filterItem' = ""
    /\ filterDate' = 0
    /\ UNCHANGED <<budgets, txs, settings, month, nextId, propagated, view, pc,
                   tab, localStorage>>

\* the merge resetting the plan when b has none
Merge_ResetPlan(old, b) ==
    [f \in DOMAIN old \cup DOMAIN b |->
        IF f \in DOMAIN b THEN b[f] ELSE IF f = "plan" THEN 0 ELSE old[f]]

\* { ...list[i], ...b }
Merge(old, b) ==
    [f \in DOMAIN old \cup DOMAIN b |-> IF f \in DOMAIN b THEN b[f] ELSE old[f]]

\* b.f || dflt, for a field that may be missing
OrElse(b, f, falsy, dflt) ==
    IF f \in DOMAIN b /\ b[f] # falsy THEN b[f] ELSE dflt

\* the list upsertBudgetItem(b) stores for the selected month
Upserted(list, b, n) ==
    IF OrElse(b, "id", 0, 0) # 0
    THEN [i \in 1..Len(list) |->
             IF /\ list[i].id = b.id
                /\ \A j \in 1..(i - 1) : list[j].id # b.id
             THEN Merge(list[i], b) ELSE list[i]]
    ELSE Append(list, [id |-> uid(n + 1),
                       top |-> OrElse(b, "top", "", "Spending"),
                       name |-> OrElse(b, "name", "", "new item"),
                       plan |-> OrElse(b, "plan", 0, 0)])

upsertBudgetItem(b) ==
    /\ pc = "rendered"
    /\ LET list == monthBudgets(budgets, month)
           new == Upserted(list, b, nextId)
       IN /\ Len(new) <= MaxItems
          /\ budgets' = SetMonthList(budgets, month, new)
          /\ nextId' = IF Len(new) > Len(list) THEN nextId + 1 ELSE nextId
          /\ nextId' <= MaxIds
    /\ UNCHANGED <<txs, settings, month, propagated>>
    /\ Rerender

\* BudgetView: the add form, and the name and plan inputs of a row on blur
SubmitNewItem(in) ==
    upsertBudgetItem([top |-> in.top,
                      name |-> IF in.name = "" THEN "new item" ELSE in.name,
                      plan |-> in.plan])
BlurName(i, val) ==
    /\ i \in 1..Len(monthBudgets(budgets, month))
    /\ val # monthBudgets(budgets, month)[i].name
    /\ upsertBudgetItem([id |-> monthBudgets(budgets, month)[i].id, name |-> val])
BlurPlan(i, val) ==
    /\ i \in 1..Len(monthBudgets(budgets, month))
    /\ val # monthBudgets(budgets, month)[i].plan
    /\ upsertBudgetItem([id |-> monthBudgets(budgets, month)[i].id, plan |-> val])

\* (prev.budgets[month] || []).filter((b) => b.id !== id)
WithoutItem(list, id) == LET Keep(b) == b.id # id IN SelectSeq(list, Keep)

\* deleteBudgetItem building budgets without the spread of prev.budgets
deleteBudgetItem_DropMonths(id) ==
    /\ pc = "rendered"
    /\ budgets' = [k \in {month} |-> WithoutItem(monthBudgets(budgets, month), id)]
    /\ UNCHANGED <<txs, settings, month, nextId, propagated>>
    /\ Rerender

deleteBudgetItem(id) ==
    /\ pc = "rendered"
    /\ budgets' = SetMonthList(budgets, month,
                               WithoutItem(monthBudgets(budgets, month), id))
    /\ UNCHANGED <<txs, settings, month, nextId, propagated>>
    /\ Rerender

\* the save button storing the index of the chosen option
SaveStartDay_Index(d) ==
    /\ pc = "rendered"
    /\ settings' = [settings EXCEPT !.startDay = d - 1,
                                    !.startDayTakesEffectNextMonth = TRUE]
    /\ UNCHANGED <<budgets, txs, month, nextId, propagated>>
    /\ Rerender

\* SettingsView: the save button with startDay chosen in the select
SaveStartDay(d) ==
    /\ pc = "rendered"
    /\ settings' = [settings EXCEPT !.startDay = d,
                                    !.startDayTakesEffectNextMonth = TRUE]
    /\ UNCHANGED <<budgets, txs, month, nextId, propagated>>
    /\ Rerender

\* the sample transactions all entered under the first item
Sample_AllFood(baseMonth, n) ==
    << [id |-> uid(n + 1), date |-> DateStr(baseMonth, 1), top |-> "Spending",
        item |-> "food", amount |-> 3300],
       [id |-> uid(n + 2), date |-> DateStr(baseMonth, 2), top |-> "Spending",
        item |-> "food", amount |-> 39000],
       [id |-> uid(n + 3), date |-> DateStr(baseMonth, 4), top |-> "Spending",
        item |-> "food", amount |-> 23100] >>

\* SettingsView: the three sample transactions of the selected month
Sample(baseMonth, n) ==
    << [id |-> uid(n + 1), date |-> DateStr(baseMonth, 1), top |-> "Spending",
        item |-> "food", amount |-> 3300],
       [id |-> uid(n + 2), date |-> DateStr(baseMonth, 2), top |-> "Spending",
        item |-> "living", amount |-> 39000],
       [id |-> uid(n + 3), date |-> DateStr(baseMonth, 4), top |-> "Spending",
        item |-> "utility", amount |-> 23100] >>

AddSampleData ==
    /\ pc = "rendered"
    /\ nextId + 3 <= MaxIds
    /\ Len(txs) + 3 <= MaxTxs
    /\ txs' = Sample(month, nextId) \o txs
    /\ nextId' = nextId + 3
    /\ UNCHANGED <<budgets, settings, month, propagated>>
    /\ Rerender

\* BudgetApp mounting with the state s on the storage st, uid() having
\* returned n values: useState(loadState()), the tab "home", no filter,
\* the current month, then the propagation effect and the save effect
Mount(s, st, n) ==
    LET pk == prevKey(s.budgets, CurMonth)
        copy == NeedsCopy(monthBudgets(s.budgets, CurMonth)) /\ pk # 0
        list == IF copy THEN copied(s.budgets[pk], n) ELSE << >>
    IN /\ n + Len(list) <= MaxIds
       /\ budgets' = IF copy THEN SetMonthList(s.budgets, CurMonth, list)
                      ELSE s.budgets
       /\ txs' = s.txs
       /\ settings' = s.settings
       /\ month' = CurMonth
       /\ nextId' = n + Len(list)
       /\ tab' = "home"
       /\ filterItem' = ""
       /\ filterDate' = 0
       /\ Commit(st)

\* the page loaded again, by the user or after the app was unmounted
Reload ==
    /\ pc \in {"rendered", "crashed"}
    /\ Mount(LoadState(localStorage.item), localStorage, nextId)
    /\ propagated' = IF budgets' # LoadState(localStorage.item).budgets
                     THEN propagated \cup {CurMonth} ELSE propagated

\* SettingsView: the reset button, confirmed: removeItem(LS_KEY), then
\* location.reload().  No identifier of the earlier run is left, so uid()
\* is counted from the seed again.
Reset ==
    /\ pc = "rendered"
    /\ Mount(LoadState(removeItem(localStorage).item), removeItem(localStorage),
             Len(SeedItems))
    /\ UNCHANGED propagated

-----------------------------------------------------------------------------
(* The app: started with nothing stored *)

InitWith(room) ==
    /\ budgets = loadState.budgets
    /\ txs = loadState.txs
    /\ settings = loadState.settings
    /\ month = CurMonth
    /\ nextId = Len(SeedItems)
    /\ propagated = {}
    /\ view = Render(loadState.budgets, loadState.txs, loadState.settings, CurMonth)
    /\ pc = "rendered"
    /\ tab = "home"
    /\ filterItem = ""
    /\ filterDate = 0
    /\ localStorage = [item |-> <<Stringify(loadState)>>, room |-> room]

Init == InitWith(Room)

\* the Category Store: month selection and the BudgetView operations
NextBudget ==
    \/ \E k \in Months : SelectMonth(k)
    \/ \E in \in ItemInputs : SubmitNewItem(in)
    \/ \E i \in EditRows, val \in NameInputs : BlurName(i, val)
    \/ \E i \in EditRows, val \in PlanInputs : BlurPlan(i, val)
    \/ \E id \in Ids(monthBudgets(budgets, month)) : deleteBudgetItem(id)

\* the ledger and the settings
NextLedger ==
    \/ \E in \in QuickEntries : in.item \in ItemOptions /\ handleSubmit(in)
    \/ \E tx \in {baseTxs(txs, view.monthRange)[i] :
                     i \in 1..Len(baseTxs(txs, view.monthRange))} : removeTx(tx.id)
    \/ \E d \in StartDays : SaveStartDay(d)
    \/ AddSampleData

\* the page loaded again and the data reset
NextPage == Reload \/ Reset

\* the tabs, and the days of the calendar cells clicked
Tabs == {"home", "list", "budget", "monthly", "settings"}
ClickDays == {TodayDay - 1, TodayDay}

\* navigation: the tab bar, the drill-downs of the monthly view and the
\* filters of the list view
NextViews ==
    \/ \E t \in Tabs : SetTab(t)
    \/ \E d \in ClickDays \cap DOMAIN Calendar : ClickCell(Calendar[d])
    \/ \E i \in 1..Len(view.chartData) : ClickItemRow(view.chartData[i])
    \/ \E name \in {""} \cup itemOptions(baseTxs(txs, view.monthRange)) :
           ChangeFilter(name)
    \/ ClearFilters

Next == NextBudget \/ NextLedger \/ NextPage \/ NextViews

Spec == Init /\ [][Next]_vars

\* the app used for its budget plan only
SpecBudget == Init /\ [][NextBudget]_vars

\* the arguments upsertBudgetItem is called with, of type
\* Partial<BudgetItem> & { id?: string }: nothing, every field with the
\* id "", a name for the first, the second and the last id uid() may have
\* returned, and a plan and a top for the first id
UpsertArgs ==
    {<< >>, [id |-> 0, top |-> "Savings", name |-> "rent", plan |-> 1000],
     [id |-> uid(1), plan |-> 7, top |-> "Other"]}
        \cup {[id |-> uid(i), name |-> "rent"] : i \in {1, 2, MaxIds}}

\* the months selected while the operations are called
StoreMonths == {k \in Months : k <= CurMonth}

\* month selection, and upsertBudgetItem and deleteBudgetItem called with
\* any argument of their parameter types
NextStoreCalls ==
    \/ \E k \in StoreMonths : SelectMonth(k)
    \/ \E b \in UpsertArgs : upsertBudgetItem(b)
    \/ \E id \in 1..MaxIds : deleteBudgetItem(id)

SpecStoreCalls == Init /\ [][NextStoreCalls]_vars

\* addTx called with a transaction of type Tx
AddTxCall(tx) ==
    /\ pc = "rendered"
    /\ addTx(tx)
    /\ UNCHANGED <<budgets, settings, month, propagated>>
    /\ Rerender

\* the transactions addTx is called with: the id is "" or one that uid()
\* has returned before
TxArgs == [id : {0, Len(SeedItems) + 1}, date : {todayStr},
           top : {"Spending", "Savings"}, item : {"food"}, amount : {5000},
           memo : {"", "lunch"}]

\* addTx and removeTx called with any argument of their parameter types
NextLedgerCalls ==
    \/ \E tx \in TxArgs : AddTxCall(tx)
    \/ \E id \in 1..MaxIds : removeTx(id)

SpecLedgerCalls == Init /\ [][NextLedgerCalls]_vars

\* the app used for its ledger and its settings only
SpecLedger == Init /\ [][NextLedger]_vars

\* the quick entries of a session: the date input left empty
SessionEntries == {in \in QuickEntries : in.date = 0}

\* the operations of a session that change the state, the page never
\* loaded again
NextWrites ==
    \/ \E k \in StoreMonths : SelectMonth(k)
    \/ \E in \in ItemInputs : SubmitNewItem(in)
    \/ \E id \in Ids(monthBudgets(budgets, month)) : deleteBudgetItem(id)
    \/ \E in \in SessionEntries : in.item \in ItemOptions /\ handleSubmit(in)
    \/ \E tx \in {baseTxs(txs, view.monthRange)[i] :
                     i \in 1..Len(baseTxs(txs, view.monthRange))} : removeTx(tx.id)
    \/ \E d \in StartDays : SaveStartDay(d)

\* one session of the app on its storage: the operations of the Category
\* Store, of the ledger and of the settings, reloads and resets
NextSession == NextWrites \/ NextPage

\* the storage has room to spare, or room for one entry more than the seed
InitSession == \E room \in {SmallRoom, Room} : InitWith(room)

SpecSession == InitSession /\ [][NextSession]_vars

SpecWrites == InitSession /\ [][NextWrites]_vars

\* every operation that changes the state, on a storage with room to spare:
\* the items added, edited and deleted, the month selected, the ledger and
\* the start day
NextFrame ==
    \/ NextWrites
    \/ \E i \in 1..MaxItems, val \in PlanInputs : BlurPlan(i, val)

SpecFrame == Init /\ [][NextFrame]_vars

\* the app navigated: quick entries on the home view, the month selected
\* where a month input is shown, and the views
NextNav ==
    \/ tab = "home" /\ \E in \in SessionEntries :
                           in.item \in ItemOptions /\ handleSubmit(in)
    \/ tab \in {"home", "budget", "monthly"} /\ \E k \in StoreMonths : SelectMonth(k)
    \/ NextViews

SpecNav == Init /\ [][NextNav]_vars

TypeOK ==
    /\ month \in Months
    /\ DOMAIN budgets \subseteq Months
    /\ nextId \in 0..MaxIds
    /\ Len(txs) <= MaxTxs
    /\ settings.startDay \in 1..31
    /\ pc \in {"rendered", "crashed"}
    /\ tab \in Tabs
    /\ Len(localStorage.item) <= 1

-----------------------------------------------------------------------------
(* The derived values as functions of their inputs: a state and a month    *)
(* are drawn and BudgetApp renders once.                                   *)

RenderApp ==
    /\ pc = "input"
    /\ UNCHANGED <<budgets, txs, settings, month, nextId, propagated>>
    /\ Rerender

\* before the first render nothing is shown
Blank == Render(<< >>, << >>, loadState.settings, CurMonth)

\* period resolution: every month of the years and every start day
InitPeriod ==
    /\ budgets = loadState.budgets
    /\ txs = << >>
    /\ \E d \in 1..31 : settings = [loadState.settings EXCEPT !.startDay = d]
    /\ \E y \in FirstYear..LastYear, m \in 1..12 : month = MonthKey(y, m)
    /\ nextId = Len(SeedItems)
    /\ propagated = {}
    /\ view = Blank
    /\ pc = "input"
    /\ tab = "home"
    /\ filterItem = ""
    /\ filterDate = 0
    /\ localStorage = [item |-> << >>, room |-> Room]

SpecPeriod == InitPeriod /\ [][RenderApp]_vars

\* the month numbers startEndOfMonth is called with: Number() of the text
\* after the "-" of any key "YYYY-MM"
MonthNumbers == 0..13

\* period resolution for any key "YYYY-MM", its month number in 1..12 or not
InitPeriodCalls ==
    /\ budgets = loadState.budgets
    /\ txs = << >>
    /\ \E d \in 1..31 : settings = [loadState.settings EXCEPT !.startDay = d]
    /\ \E y \in FirstYear..LastYear, m \in MonthNumbers : month = MonthKey(y, m)
    /\ nextId = Len(SeedItems)
    /\ propagated = {}
    /\ view = Blank
    /\ pc = "input"
    /\ tab = "home"
    /\ filterItem = ""
    /\ filterDate = 0
    /\ localStorage = [item |-> << >>, room |-> Room]

SpecPeriodCalls == InitPeriodCalls /\ [][RenderApp]_vars

\* all sequences over S of length at most n
SeqsUpTo(S, n) == UNION {[1..k -> S] : k \in 0..n}

\* the items of a drawn month and the transactions of a drawn ledger
RepItemShapes == [top : {"Spending", "Savings"}, name : {"food", "living"},
                  plan : {0, 1000}]
RepTxShapes == [top : {"Spending"}, item : {"food", "living"},
                date : DateInputs, amount : {5000}]
\* items and transactions of one name in every top category
TopItemShapes == [top : TopCategory, name : {"food"}, plan : {1000}]
TopTxShapes == [top : TopCategory, item : {"food"},
                date : {DateStr(CurMonth, 31)}, amount : {5000}]
\* (actual, plan) pairs named by the specification
RateExamples == {<<333, 1000>>, <<5000, 1000>>, <<500, 0>>}

WithItemIds(shapes) ==
    [i \in 1..Len(shapes) |->
        [id |-> uid(i), top |-> shapes[i].top, name |-> shapes[i].name,
         plan |-> shapes[i].plan]]
WithTxIds(shapes, n) ==
    [i \in 1..Len(shapes) |->
        [id |-> uid(n + i), date |-> shapes[i].date, top |-> shapes[i].top,
         item |-> shapes[i].item, amount |-> shapes[i].amount]]

\* the report: the selected month holds the drawn items, the ledger the
\* drawn transactions
InitReport ==
    /\ month = CurMonth
    /\ \E d \in StartDays : settings = [loadState.settings EXCEPT !.startDay = d]
    /\ \/ \E items \in SeqsUpTo(RepItemShapes, RepItems),
             ledger \in SeqsUpTo(RepTxShapes, RepTxs) :
               /\ budgets = [k \in {CurMonth} |-> WithItemIds(items)]
               /\ txs = WithTxIds(ledger, Len(items))
       \/ \E items \in SeqsUpTo(TopItemShapes, RepItems),
             ledger \in SeqsUpTo(TopTxShapes, RepTxs) :
               /\ budgets = [k \in {CurMonth} |-> WithItemIds(items)]
               /\ txs = WithTxIds(ledger, Len(items))
       \/ \E pair \in ((1..MaxAmount) \X (0..MaxPlan)) \cup RateExamples :
               /\ budgets = [k \in {CurMonth} |->
                                <<[id |-> uid(1), top |-> "Spending",
                                   name |-> "food", plan |-> pair[2]]>>]
               /\ txs = <<[id |-> uid(2), date |-> DateStr(CurMonth, 31),
                           top |-> "Spending", item |-> "food",
                           amount |-> pair[1]]>>
    /\ nextId = Len(budgets[CurMonth]) + Len(txs)
    /\ propagated = {}
    /\ view = Blank
    /\ pc = "input"
    /\ tab = "home"
    /\ filterItem = ""
    /\ filterDate = 0
    /\ localStorage = [item |-> << >>, room |-> Room]

SpecReport == InitReport /\ [][RenderApp]_vars

-----------------------------------------------------------------------------
(* Properties *)

Rendered == pc = "rendered"

\* the sum of the values of the function f over the finite set S
RECURSIVE SumFn(_, _)
SumFn(f, S) ==
    IF S = {} THEN 0
    ELSE LET x == CHOOSE x \in S : TRUE IN f[x] + SumFn(f, S \ {x})

\* calendar facts, stated on day numbers YYYYMMDD
DayNum(dt) == dt.y * 10000 + (dt.m + 1) * 100 + dt.d
DaysIn(k) == MonthLength(KeyYear(k), KeyMonth(k) - 1)
NextKey(k) == IF KeyMonth(k) = 12 THEN MonthKey(KeyYear(k) + 1, 1) ELSE k + 1
DayAfter(dt) == NewDate(dt.y, dt.m, dt.d + 1)

\* C1: the period resolved for a month ends exactly one calendar day
\* before the period resolved for the following month with the same start
\* day begins.
C1_PeriodContinuity ==
    Rendered =>
        DayNum(DayAfter(view.monthRange.end))
            = DayNum(startEndOfMonth(NextKey(month), settings.startDay).start)

\* C2: the resolved period has start <= end, its start lies in the
\* requested calendar month, and the start's day of month is
\* min(start day, number of days of that month).
C2_StartWithinMonth ==
    Rendered =>
        LET p == view.monthRange
        IN /\ DateLE(p.start, p.end)
           /\ p.start.y = KeyYear(month)
           /\ p.start.m + 1 = KeyMonth(month)
           /\ p.start.d = Min(settings.startDay, DaysIn(month))

\* C2 witness: start day 31 resolved for February of a leap year
C2_ClampedStart ==
    /\ Rendered
    /\ settings.startDay = 31
    /\ KeyMonth(month) = 2
    /\ view.monthRange.start.d = 29

\* a step that selects another month
Selects == month' # month

SameDefinitions(l1, l2) ==
    /\ Len(l1) = Len(l2)
    /\ \A i \in 1..Len(l1) :
           /\ l1[i].top = l2[i].top
           /\ l1[i].name = l2[i].name
           /\ l1[i].plan = l2[i].plan

Greatest(S) == CHOOSE k \in S : \A j \in S : j <= k

\* C3 (as claimed): once a month has received propagated items, no later
\* selection of that month changes its item list by copying again.
C3_PropagatesAtMostOnce ==
    [][(Selects /\ month' \in propagated)
          => monthBudgets(budgets', month') = monthBudgets(budgets, month')]_vars

\* C3 (amended): a selection of a month that has received propagated items
\* and still holds at least one item copies nothing: the budgets, ids
\* included, stay as they are and uid() is not called.
C3_NoCopyWhileNonEmpty ==
    [][(Selects /\ month' \in propagated
               /\ Len(monthBudgets(budgets, month')) > 0)
          => (budgets' = budgets /\ nextId' = nextId)]_vars

\* C3 witness: the month after the seeded one received its copy, an item
\* was then created in the month before the seeded one, and the month
\* with the copy is selected again, still holding the copied items
C3_Reselected ==
    LET later == NextKey(CurMonth)
        earlier == Greatest({k \in Months : k < CurMonth})
    IN /\ month = later
       /\ later \in propagated
       /\ Len(monthBudgets(budgets, later)) > 0
       /\ \E i \in 1..Len(monthBudgets(budgets, earlier)) :
              \A j \in 1..Len(budgets[later]) :
                  budgets[later][j].id < budgets[earlier][i].id

\* C4: when a month with no entry or an empty list is selected, the items
\* are copied from the greatest earlier month that has a non-empty list,
\* and the month stays empty when there is no such month.
C4_SourceIsNearestMonthWithData ==
    [][(Selects /\ Len(monthBudgets(budgets, month')) = 0)
          => LET S == {k \in DOMAIN budgets : k < month' /\ Len(budgets[k]) > 0}
             IN IF S = {} THEN Len(monthBudgets(budgets', month')) = 0
                ELSE SameDefinitions(monthBudgets(budgets', month'),
                                     budgets[Greatest(S)])]_vars

\* C5: the list propagated into the selected month has the length and
\* order of the source list, item by item the same name, top category and
\* plan, and ids different from every id of the source and from each other.
C5_CopiesAreFreshDefinitions ==
    [][(/\ Selects
        /\ Len(monthBudgets(budgets, month')) = 0
        /\ {k \in DOMAIN budgets : k < month'} # {})
          => LET src == budgets[Greatest({k \in DOMAIN budgets : k < month'})]
                 dst == monthBudgets(budgets', month')
             IN /\ SameDefinitions(dst, src)
                /\ Ids(dst) \cap Ids(src) = {}
                /\ Cardinality(Ids(dst)) = Len(dst)]_vars

\* C5 witness: the selected month holds a propagated copy of two or more
\* items of an earlier month
C5_Propagated ==
    /\ month \in propagated
    /\ Len(monthBudgets(budgets, month)) >= 2
    /\ \E k \in DOMAIN budgets :
           k < month /\ SameDefinitions(budgets[month], budgets[k])

\* C6: a month-selection step leaves the item list of every month that
\* holds at least one item exactly as it was.
C6_SelectionKeepsItems ==
    [][Selects
          => \A k \in DOMAIN budgets :
                 Len(budgets[k]) >= 1
                     => (k \in DOMAIN budgets' /\ budgets'[k] = budgets[k])]_vars

\* C6 witness: the seeded month is selected again, holding items, after an
\* earlier month has been given items
C6_BackOnSeededMonth ==
    /\ month = CurMonth
    /\ Len(monthBudgets(budgets, CurMonth)) >= 1
    /\ \E k \in DOMAIN budgets : k < CurMonth /\ Len(budgets[k]) >= 1

\* the ledger entries counted for the item name: Spending, dated from the
\* first to the last day of the period
Counted(name) ==
    {j \in 1..Len(txs) :
        /\ txs[j].top = "Spending"
        /\ txs[j].item = name
        /\ DayNum(view.monthRange.start) <= txs[j].date
        /\ txs[j].date <= DayNum(view.monthRange.end)}

SpendingRows ==
    {i \in 1..Len(monthBudgets(budgets, month)) :
        monthBudgets(budgets, month)[i].top = "Spending"}

\* the row of chartData showing item i of the selected month
RowOf(i) == Cardinality({j \in SpendingRows : j <= i})

\* C7: the report has one row per Spending item of the selected month and
\* the row's actual is the sum of the amounts of the Spending transactions
\* with the item's name dated within the period, both boundary days
\* included (0 when there is none).
C7_ActualIsPeriodSum ==
    Rendered =>
        /\ Len(view.chartData) = Cardinality(SpendingRows)
        /\ \A i \in SpendingRows :
               LET b == monthBudgets(budgets, month)[i]
                   row == view.chartData[RowOf(i)]
               IN /\ row.name = b.name
                  /\ row.actual = SumFn([j \in Counted(b.name) |-> txs[j].amount],
                                        Counted(b.name))

\* C7 witness: a row counts a transaction dated on the first day of the
\* period while a transaction of the same item dated the day before is
\* left out
C7_BoundaryDayCounted ==
    /\ Rendered
    /\ \E r \in 1..Len(view.chartData), j, k \in 1..Len(txs) :
           /\ view.chartData[r].actual = txs[j].amount
           /\ txs[j].top = "Spending" /\ txs[k].top = "Spending"
           /\ txs[j].item = view.chartData[r].name
           /\ txs[k].item = view.chartData[r].name
           /\ txs[j].date = DayNum(view.monthRange.start)
           /\ txs[k].date < DayNum(view.monthRange.start)

\* actual * 100 / plan rounded to the nearest integer, halves up
HalfUpPercent(actual, plan) == (200 * actual + plan) \div (2 * plan)

\* C8: a row's rate is 0 when its plan is 0 and otherwise
\* min(100, actual * 100 / plan rounded half up).
C8_RateRoundsHalfUp ==
    Rendered =>
        \A r \in 1..Len(view.chartData) :
            LET row == view.chartData[r]
            IN row.rate = IF row.plan = 0 THEN 0
                          ELSE Min(100, HalfUpPercent(row.actual, row.plan))

\* C9: the over-budget flag of a Spending item is (actual > plan) for the
\* actual the report shows for that item.
C9_OverFlagFollowsReport ==
    Rendered =>
        \A i \in SpendingRows :
            view.budgetRows[i].over
                = (view.chartData[RowOf(i)].actual
                       > monthBudgets(budgets, month)[i].plan)

\* C10: planSum is the sum of the plans of the Spending items of the
\* selected month, spentSum the sum of the actuals of the report rows, and
\* remainSum is planSum - spentSum when that is not negative and 0 otherwise.
C10_Totals ==
    Rendered =>
        LET list == monthBudgets(budgets, month)
            rows == view.chartData
        IN /\ view.planSum = SumFn([i \in SpendingRows |-> list[i].plan], SpendingRows)
           /\ view.spentSum = SumFn([r \in 1..Len(rows) |-> rows[r].actual],
                                    1..Len(rows))
           /\ view.remainSum >= 0
           /\ view.spentSum <= view.planSum
                  => view.remainSum = view.planSum - view.spentSum
           /\ view.spentSum > view.planSum => view.remainSum = 0

\* C10 witness: more was spent than planned on a month with a plan
C10_Overspent ==
    /\ Rendered
    /\ view.planSum > 0
    /\ view.spentSum > view.planSum
    /\ view.remainSum = 0

\* the Spending entries of a list of items or of transactions
SpendingOnly(seq) ==
    LET IsSpending(x) == x.top = "Spending" IN SelectSeq(seq, IsSpending)

\* C11: Savings and Other transactions contribute to no actualByItem
\* entry, report row or total, whatever their item name, and Savings and
\* Other items are no report row and no part of planSum: the report is the
\* one of the Spending items and the Spending transactions alone.
C11_CategoryExclusion ==
    Rendered =>
        LET list == monthBudgets(budgets, month)
            alone == Render(SetMonthList(budgets, month, SpendingOnly(list)),
                            SpendingOnly(txs), settings, month)
        IN /\ actualByItem(monthTxs(txs, view.monthRange))
                  = actualByItem(monthTxs(SpendingOnly(txs), view.monthRange))
           /\ Len(view.chartData) = Cardinality(SpendingRows)
           /\ view.chartData = alone.chartData
           /\ view.spentSum = alone.spentSum
           /\ view.planSum = alone.planSum

\* C11 witness: a Savings transaction inside the period carries the name
\* of a Spending item whose row shows no spending, next to an Other item
C11_SavingsUnderSpendingName ==
    /\ Rendered
    /\ \E i \in SpendingRows, k \in 1..Len(monthBudgets(budgets, month)),
          j \in 1..Len(txs) :
           /\ monthBudgets(budgets, month)[k].top = "Other"
           /\ txs[j].top = "Savings"
           /\ txs[j].item = monthBudgets(budgets, month)[i].name
           /\ DayNum(view.monthRange.start) <= txs[j].date
           /\ txs[j].date <= DayNum(view.monthRange.end)
           /\ view.chartData[RowOf(i)].actual = 0
           /\ view.planSum = monthBudgets(budgets, month)[i].plan

\* C12: with the seed of loadState (plans 300000, 300000, 100000), an
\* empty ledger and start day 1, adding the sample data to the seeded
\* month (3300, 39000 and 23100 on days 01, 02 and 04) gives the report
\* rates 1, 13 and 23, planSum 700000, spentSum 65400 and remainSum 634600.
C12_SampleDataReport ==
    [][(/\ budgets = loadState.budgets
        /\ settings = loadState.settings
        /\ month = CurMonth
        /\ txs = << >>
        /\ Len(txs') = 3)
          => (/\ [i \in 1..3 |-> txs'[i].amount] = <<3300, 39000, 23100>>
              /\ [i \in 1..3 |-> txs'[i].date % 100] = <<1, 2, 4>>
              /\ \A i \in 1..3 : txs'[i].date \div 100 = CurMonth
              /\ Len(view'.chartData) = 3
              /\ [i \in 1..3 |-> view'.chartData[i].rate] = <<1, 13, 23>>
              /\ view'.planSum = 700000
              /\ view'.spentSum = 65400
              /\ view'.remainSum = 634600)]_vars

\* C12 witness: the seeded month showing the sample data
C12_SampleDataShown ==
    /\ Rendered
    /\ budgets = loadState.budgets
    /\ settings = loadState.settings
    /\ month = CurMonth
    /\ [i \in 1..Len(txs) |-> txs[i].amount] = <<3300, 39000, 23100>>
    /\ view.spentSum = 65400

\* C13: saving another start day leaves the period of the selected month,
\* and with it the report, as resolved with the previous start day.
C13_StartDayNotRetroactive ==
    [][settings'.startDay # settings.startDay
          => (/\ view'.monthRange = view.monthRange
              /\ view'.chartData = view.chartData
              /\ view'.spentSum = view.spentSum)]_vars

PositiveIntegerText(text) ==
    /\ Len(text) > 0
    /\ \A i \in 1..Len(text) :
           text[i] \in {"0", "1", "2", "3", "4", "5", "6", "7", "8", "9"}
    /\ \E i \in 1..Len(text) : text[i] # "0"

\* a calendar date written YYYYMMDD
ValidDate(n) ==
    /\ (n \div 100) % 100 \in 1..12
    /\ n % 100 \in 1..DaysIn(n \div 100)

\* C17: a quick entry whose amount is not a positive integer or whose item
\* is empty leaves the ledger unchanged, and every transaction of the
\* ledger has a positive integer amount, a non-empty item and a valid date.
C17_InvalidEntryRejected ==
    /\ [][\A in \in QuickEntries :
              (handleSubmit(in)
                   /\ (in.item = "" \/ ~PositiveIntegerText(in.amount)))
                  => txs' = txs]_vars
    /\ [](\A i \in 1..Len(txs) :
              /\ txs[i].amount \in Nat \ {0}
              /\ txs[i].item # ""
              /\ ValidDate(txs[i].date))

\* the ledger t without its transaction of the given id
Removed(t, id) ==
    IF \E i \in 1..Len(t) : t[i].id = id
    THEN LET i == CHOOSE i \in 1..Len(t) : t[i].id = id
         IN SubSeq(t, 1, i - 1) \o SubSeq(t, i + 1, Len(t))
    ELSE t

\* C15: removeTx(id) yields the ledger without the transaction of that
\* id, the others unchanged and in their order; for an id no transaction
\* has, the ledger it yields is the ledger itself.
C15_RemoveExactlyOne ==
    /\ [][\A id \in 1..MaxIds : removeTx(id) => txs' = Removed(txs, id)]_vars
    /\ [](\A id \in 1..MaxIds :
              /\ WithoutTx(txs, id) = Removed(txs, id)
              /\ (\A i \in 1..Len(txs) : txs[i].id # id)
                     => WithoutTx(txs, id) = txs)

\* C15 witness: of three transactions added one after the other the middle
\* one has been removed
C15_MiddleRemoved ==
    /\ Len(txs) = 2
    /\ txs[1].id = txs[2].id + 2

\* C16: addTx(tx) puts one transaction at the head of the ledger, with
\* the date, top, item, amount and memo of tx and an id that is neither
\* the "" of the caller nor the id of a transaction already in the ledger;
\* the transactions that were in the ledger follow unchanged.
C16_AddTxPrepends ==
    [][\A tx \in TxArgs :
           AddTxCall(tx)
               => (/\ Len(txs') = Len(txs) + 1
                   /\ Tail(txs') = txs
                   /\ Head(txs').id # 0
                   /\ \A i \in 1..Len(txs) : txs[i].id # Head(txs').id
                   /\ Head(txs').date = tx.date
                   /\ Head(txs').top = tx.top
                   /\ Head(txs').item = tx.item
                   /\ Head(txs').amount = tx.amount
                   /\ Head(txs').memo = tx.memo)]_vars

\* C16 witness: a transaction with a memo was added to a ledger that held
\* a Savings transaction
C16_AddedToLedger ==
    /\ Len(txs) >= 2
    /\ txs[1].memo = "lunch"
    /\ txs[2].top = "Savings"
    /\ txs[1].id > txs[2].id

\* the argument b carries an id (b.id is not "" or undefined)
HasId(b) == "id" \in DOMAIN b /\ b.id # 0

\* the field f of b, or dflt when b has none
Supplied(b, f, dflt) == IF f \in DOMAIN b THEN b[f] ELSE dflt

\* every id of the Category Store
AllItemIds == UNION {Ids(budgets[k]) : k \in DOMAIN budgets}

\* C18: upsertBudgetItem called with an id that no item of the selected
\* month has stores a list one longer, with a new item of a fresh id.
C18_UnmatchedIdAppends ==
    Rendered =>
        \A b \in UpsertArgs :
            LET list == monthBudgets(budgets, month)
                new == Upserted(list, b, nextId)
            IN (HasId(b) /\ b.id \notin Ids(list))
                   => /\ Len(new) = Len(list) + 1
                      /\ new[Len(new)].id \notin AllItemIds

\* C19: upsertBudgetItem with the id of an item of the selected month
\* replaces the supplied fields of that item, which keeps its id, its
\* place and its other fields, and leaves the length and the other items;
\* without an id it appends one item with a fresh id, top Spending, the
\* placeholder name and plan 0 unless supplied.  Other months are unchanged.
C19_UpsertInPlaceOrAppend ==
    [][\A b \in UpsertArgs :
           upsertBudgetItem(b) =>
               LET list == monthBudgets(budgets, month)
                   new == monthBudgets(budgets', month)
               IN /\ \A k \in DOMAIN budgets \ {month} :
                         k \in DOMAIN budgets' /\ budgets'[k] = budgets[k]
                  /\ (HasId(b) /\ b.id \in Ids(list)) =>
                         /\ Len(new) = Len(list)
                         /\ \A i \in 1..Len(list) :
                                IF list[i].id = b.id
                                THEN /\ new[i].id = list[i].id
                                     /\ new[i].top = Supplied(b, "top", list[i].top)
                                     /\ new[i].name = Supplied(b, "name", list[i].name)
                                     /\ new[i].plan = Supplied(b, "plan", list[i].plan)
                                ELSE new[i] = list[i]
                  /\ ~HasId(b) =>
                         /\ Len(new) = Len(list) + 1
                         /\ SubSeq(new, 1, Len(list)) = list
                         /\ new[Len(new)].id \notin AllItemIds
                         /\ new[Len(new)].top = Supplied(b, "top", "Spending")
                         /\ new[Len(new)].name = Supplied(b, "name", "new item")
                         /\ new[Len(new)].plan = Supplied(b, "plan", 0)]_vars

\* C19 witness: the first seed item has the plan and top it was given and
\* the name it had, and the last item was appended with the defaults
C19_EditedAndAppended ==
    LET list == monthBudgets(budgets, month)
    IN /\ month = CurMonth
       /\ Len(list) >= 2
       /\ list[1].id = SeedItems[1].id
       /\ list[1].name = SeedItems[1].name
       /\ list[1].plan = 7
       /\ list[1].top = "Other"
       /\ list[Len(list)].id > Len(SeedItems)
       /\ list[Len(list)].name = "new item"
       /\ list[Len(list)].top = "Spending"
       /\ list[Len(list)].plan = 0

\* C20: deleteBudgetItem(id) removes the item of that id from the selected
\* month and changes nothing else; when the month has no such item, or no
\* entry, the budgets and their month keys are unchanged.
C20_DeleteOnlyThatItem ==
    [][\A id \in 1..MaxIds :
           deleteBudgetItem(id) =>
               IF id \in Ids(monthBudgets(budgets, month))
               THEN /\ budgets'[month] = Removed(budgets[month], id)
                    /\ DOMAIN budgets' = DOMAIN budgets
                    /\ \A k \in DOMAIN budgets \ {month} :
                           budgets'[k] = budgets[k]
               ELSE budgets' = budgets]_vars

-----------------------------------------------------------------------------
\* C21: resolving the period of a month number outside 1..12 fails with
\* InvalidArgument instead of returning a date range: no render completes
\* with the period of such a month key.
C21_InvalidMonthRejected ==
    Rendered /\ KeyMonth(month) \notin 1..12
        => view.monthRange # startEndOfMonth(month, settings.startDay)

-----------------------------------------------------------------------------
\* the state in memory, and the state a load of the stored item returns
Memory == [budgets |-> budgets, txs |-> txs, settings |-> settings]
Stored == LoadState(localStorage.item)

\* C22: every mutating operation is all-or-nothing with the persistence: if
\* the save fails the operation is aborted and the state in memory is the one
\* before it, so in no reachable state the state in memory holds a change
\* that is not stored.
C22_AllOrNothing == localStorage.item = <<Stringify(Memory)>>

\* C23: a load with nothing stored returns the default seed (an empty
\* ledger, start day 1, the current month as the only month, with three
\* Spending items), and after a reset following any operations the state
\* loaded, shown and stored is that seed again, nothing of the earlier
\* state left.
C23_ResetLoadsSeed ==
    /\ [](LoadState(removeItem(localStorage).item) = loadState)
    /\ [][Reset =>
            /\ txs' = << >>
            /\ settings'.startDay = 1
            /\ DOMAIN budgets' = {CurMonth}
            /\ Len(budgets'[CurMonth]) = 3
            /\ \A i \in 1..3 : budgets'[CurMonth][i].top = "Spending"
            /\ Memory' = loadState
            /\ \A item \in {localStorage'.item} : LoadState(item) = loadState
            /\ month' = CurMonth
            /\ filterItem' = "" /\ filterDate' = 0 /\ tab' = "home"]_vars

\* a reset has happened after a month was propagated into, items were
\* deleted and the start day was changed: only the seed is there
C23_ResetAfterUse ==
    /\ propagated # {}
    /\ pc = "rendered"
    /\ DOMAIN budgets = {CurMonth}
    /\ Memory = loadState
    /\ Stored = loadState

\* C24: flush on every mutation: after every completed operation the stored
\* item, loaded, is the state in memory (load(save(s)) = s).
C24_StoredIsState == pc = "rendered" => Stored = Memory

\* two transactions were entered, the start day was changed and the budget
\* of the month was changed, all of it stored
C24_Used ==
    /\ pc = "rendered"
    /\ Len(txs) = 2
    /\ settings.startDay = 31
    /\ budgets # loadState.budgets
    /\ localStorage.item = <<Stringify(Memory)>>

\* C25: every mutating operation is a full read-modify-write of the stored
\* item: the state it starts from is the stored one, the whole new state is
\* written back, and the stored item after it differs from the one before
\* it by the change of that operation only, in one of its three parts.
C25_ReadModifyWrite ==
    [][pc' = "rendered" =>
          \A old \in {Stored} : \A item \in {localStorage'.item} :
          \A new \in {LoadState(item)} :
              /\ old = Memory
              /\ new = Memory'
              /\ Cardinality({f \in {"budgets", "txs", "settings"} :
                                 new[f] # old[f]}) <= 1]_vars

\* the stored item holds a transaction entered after a start day was saved
C25_SecondWrite ==
    /\ pc = "rendered"
    /\ Stored.txs # << >>
    /\ Stored.settings.startDay # loadState.settings.startDay
    /\ Stored.budgets = loadState.budgets

-----------------------------------------------------------------------------
\* the list the richer variant shows for the state rendered
Listed == viewTxs(baseTxs(txs, view.monthRange), filterDate, filterItem)

\* C26: the simpler variant is a subset of the richer one: a core operation
\* applied to the same state reaches the same budgets, ledger, settings and
\* report in both (a quick entry submitted in the richer variant is the
\* same step in the simpler variant), and with both filters unset the list
\* view of the richer variant shows what the list view of the simpler
\* variant shows.
C26_VariantsAgree ==
    /\ [](Rendered /\ filterItem = "" /\ filterDate = 0
            => Listed = ListViewTxs(monthTxs(txs, view.monthRange)))
    /\ [][\A in \in QuickEntries : handleSubmit(in) => handleQuickSubmit(in)]_vars

\* the Spending transactions dated within the period rendered
InPeriodSpending ==
    {j \in 1..Len(txs) :
        /\ txs[j].top = "Spending"
        /\ DayNum(view.monthRange.start) <= txs[j].date
        /\ txs[j].date <= DayNum(view.monthRange.end)}
PeriodSpendingSum == SumFn([j \in InPeriodSpending |-> txs[j].amount], InPeriodSpending)

\* C27: no transaction is counted more than once in a report: whatever the
\* item names, unique or not, the total actual of the selected month is at
\* most the sum of the amounts of the Spending transactions dated within
\* the period.
C27_NothingCountedTwice == Rendered => view.spentSum <= PeriodSpendingSum

\* C28: the monthly calendar accounts for the whole budget period: for every
\* start day and selected month the per-day totals of the calendar cells add
\* up to the sum of the amounts of the Spending transactions dated within
\* the period.
C28_CalendarCoversPeriod ==
    Rendered =>
        SumFn([d \in DOMAIN Calendar |-> Calendar[d].sum], DOMAIN Calendar)
            = PeriodSpendingSum

\* C29: drill-down from the monthly summary: after any navigation, the list
\* view opened by a click on an item row lists exactly the Spending
\* transactions of the period with that item name, so that their amounts
\* add up to the actual shown on the row; a date filter left over from a
\* calendar click hides none of them.
C29_DrillDownListsItem ==
    [][\A i \in 1..Len(view.chartData) :
          ClickItemRow(view.chartData[i]) =>
              LET OfItem(tx) == tx.item = view.chartData[i].name
                  shown == viewTxs(baseTxs(txs', view'.monthRange),
                                   filterDate', filterItem')
              IN /\ shown = SelectSeq(baseTxs(txs, view.monthRange), OfItem)
                 /\ SumFn([j \in 1..Len(shown) |-> shown[j].amount], 1..Len(shown))
                        = view.chartData[i].actual]_vars

-----------------------------------------------------------------------------
\* the months other than m keep their entries
OtherMonthsKept(m) ==
    /\ DOMAIN budgets' \subseteq DOMAIN budgets \cup {m}
    /\ \A k \in DOMAIN budgets \ {m} : k \in DOMAIN budgets' /\ budgets'[k] = budgets[k]

\* C30: upsertBudgetItem, deleteBudgetItem and the propagation change only
\* the item list of the selected month and leave the items of every other
\* month (the source month too), the ledger and the settings; addTx and
\* removeTx leave every budget item and the settings; saving the start day
\* leaves the budgets and the ledger; and a transaction keeps all its fields
\* as long as it is in the ledger.
C30_Frame ==
    [][/\ ((\/ \E k \in StoreMonths : SelectMonth(k)
            \/ \E in \in ItemInputs : SubmitNewItem(in)
            \/ \E i \in 1..MaxItems, val \in PlanInputs : BlurPlan(i, val)
            \/ \E id \in 1..MaxIds : deleteBudgetItem(id))
              => /\ OtherMonthsKept(month')
                 /\ txs' = txs
                 /\ settings' = settings)
       /\ ((\/ \E in \in SessionEntries : handleSubmit(in)
            \/ \E id \in 1..MaxIds : removeTx(id))
              => budgets' = budgets /\ settings' = settings)
       /\ ((\E d \in StartDays : SaveStartDay(d))
              => budgets' = budgets /\ txs' = txs)
       /\ (budgets' # budgets => OtherMonthsKept(month') /\ txs' = txs /\ settings' = settings)
       /\ (txs' # txs => budgets' = budgets /\ settings' = settings)
       /\ (settings' # settings => budgets' = budgets /\ txs' = txs)
       /\ \A i \in 1..Len(txs), j \in 1..Len(txs') :
              txs'[j].id = txs[i].id => txs'[j] = txs[i]]_vars

\* items were added, edited and deleted in two months, a transaction was
\* entered and the start day saved
C30_AllChanged ==
    /\ DOMAIN budgets = StoreMonths
    /\ Len(budgets[CurMonth]) = Len(SeedItems) - 1
    /\ budgets[CurMonth][1].plan # SeedItems[1].plan
    /\ \A k \in StoreMonths \ {CurMonth} : Len(budgets[k]) = 1
    /\ Len(txs) = 1
    /\ settings.startDay # loadState.settings.startDay

====
